---- MODULE Spec2Model ----
(***************************************************************************)
(* Model of the PAXG / XAU arbitrage engine (ArbitrageManager, main.py).   *)
(* One main thread runs monitor_prices; the two venues, the calendar and   *)
(* the signal source are the environment.  Prices are integers (dollars),  *)
(* a venue's position is the number of open legs it holds.                 *)
(***************************************************************************)
EXTENDS Integers, Sequences, FiniteSets, TLC

\* ---------------------------------------------------------------- bounds
MaxTrades  == 2     \* opens that get past re-verification
MaxLog     == 2     \* lines of the trade log
MaxLegs    == 2     \* legs one venue can accumulate
MaxWindow  == 2     \* trading-window notifications
MaxFailRun == 5     \* failed price fetches in a row

\* ------------------------------------------------------- program constants
MIN_PRICE_DIFF         == 6     \* Config.MIN_PRICE_DIFF
CLOSE_PRICE_DIFF       == 2     \* Config.CLOSE_PRICE_DIFF
max_consecutive_errors == 5     \* monitor_prices local
PosInf                 == 1000  \* float('inf'): above every diff
NegInf                 == -1000 \* float('-inf'): below every diff

\* prices the two feeds can return (a failed fetch is modelled apart)
PaxgPrices == {1993, 2002, 2003, 2006}
XauPrices  == {2000}

VARIABLES
    pc,                    \* where the main thread is
    ENABLE_TRADING_TIME_CHECK,
    dingtalk_notifier,     \* TRUE iff a notifier object exists
    shutdown_called,       \* self._shutdown_called
    position_open,         \* self.position_open (cached flag)
    trade_id,
    total_trades_count,
    max_diff, min_diff,
    max_diff_time,         \* 0 for None, else the number of the statistics
    min_diff_time,         \* record that carries the same timestamp
    stats_log,             \* records appended to DIFF_STATS_FILE
    last_trading_status,   \* "None" | "True" | "False"
    consecutive_errors,
    binance_legs, xau_legs,\* what the venues really hold
    trade_log,             \* TRADE_LOG_FILE, one record per line
    notif_open, notif_close, notif_window, notif_shutdown,
    shutdown_log,          \* shutdown log entries written
    is_error_shutdown,     \* runtime_info['is_error_shutdown']: "unset"|"True"|"False"
    cyc,                   \* what happened in the current poll cycle
    shutdown_calls,        \* calls of shutdown_system so far
    shutdown_cause,        \* trigger of the first shutdown_system call
    shutdown_step,         \* that call's progress: "idle" | "flagged" | "done"
    shutdown_is_error,     \* its is_error argument: "unset"|"True"|"False"
    exit_code,             \* exit status of the process: "none" | "0" | "1"
    price_fail_run,        \* consecutive failed price fetches
    fail_run,              \* failed cycles since the last counter reset
    failed_cycles,         \* cycles that failed in a row (price or exception)
    counting,              \* TRUE iff failed_cycles and the statistics file
                           \* are followed (SpecFailures)
    tracing,               \* TRUE iff notification sends may raise and the
                           \* run of cycles at one diff is followed
                           \* (SpecTrading)
    observed,              \* set of diffs observed so far
    now_eet,               \* the Athens clock the calendar functions read
    cal,                   \* what each calendar function returned
    quote,                 \* the prices and the venue an open is sized for
    sized,                 \* the quantities the two order functions submit
    queries_fail           \* TRUE iff a position query may fail (and then
                           \* returns no position)

vars == <<pc, ENABLE_TRADING_TIME_CHECK, dingtalk_notifier, shutdown_called,
          position_open, trade_id, total_trades_count, max_diff, min_diff,
          last_trading_status, consecutive_errors, binance_legs, xau_legs,
          trade_log, notif_open, notif_close, notif_window, notif_shutdown,
          shutdown_log, is_error_shutdown, cyc, shutdown_calls,
          shutdown_cause, shutdown_step, shutdown_is_error, exit_code,
          price_fail_run, fail_run, failed_cycles, counting, tracing,
          observed,
          max_diff_time, min_diff_time, stats_log, now_eet, cal,
          quote, sized, queries_fail>>

\* ------------------------------------------------------------ pure helpers
Abs(x) == IF x < 0 THEN -x ELSE x

BoolStr(b) == IF b THEN "True" ELSE "False"

\* mutant: the query finds no position, whatever the venue holds
GetOpenPositionsNone(legs, ok) == 0
\* a venue's get_open_positions: every error is swallowed and [] returned
GetOpenPositions(legs, ok) == IF ok THEN legs ELSE 0

\* mutant: the close test wants a leg on both venues
ShouldClosePositionBothLegs(diff, bpos, xpos) ==
    LET has_positions == (bpos > 0) /\ (xpos > 0)
    IN  IF ~has_positions THEN FALSE
        ELSE Abs(diff) <= CLOSE_PRICE_DIFF

\* mutant: strict comparison in the close test
ShouldClosePositionStrict(diff, bpos, xpos) ==
    LET has_positions == (bpos > 0) \/ (xpos > 0)
    IN  IF ~has_positions THEN FALSE
        ELSE Abs(diff) < CLOSE_PRICE_DIFF

\* should_close_position(diff, binance_positions, xau_positions)
ShouldClosePosition(diff, bpos, xpos) ==
    LET has_positions == (bpos > 0) \/ (xpos > 0)
    IN  IF ~has_positions THEN FALSE
        ELSE Abs(diff) <= CLOSE_PRICE_DIFF

\* mutant: the open test uses the close threshold
ShouldOpenAtCloseThreshold(diff) == Abs(diff) >= CLOSE_PRICE_DIFF

\* mutant: strict comparison in the open test
ShouldOpenStrict(diff) == Abs(diff) > MIN_PRICE_DIFF

\* the open test of monitor_prices
ShouldOpen(diff) == Abs(diff) >= MIN_PRICE_DIFF

\* mutant: the maximum compared by magnitude
NewMaxAbs(diff, mx) == IF Abs(diff) > mx THEN diff ELSE mx

\* mutant: the minimum starts from 0 instead of +inf
NewMinFromZero(diff, mn) ==
    IF diff < (IF mn = PosInf THEN 0 ELSE mn) THEN diff ELSE mn

\* update_diff_stats: the two comparisons
NewMax(diff, mx) == IF diff > mx THEN diff ELSE mx
NewMin(diff, mn) == IF diff < mn THEN diff ELSE mn

\* mutant: every observation is written to the statistics file
UpdatedAlways(diff, mx, mn) == TRUE

\* update_diff_stats: the flag `updated` after the two comparisons
Updated(diff, mx, mn) == diff > mx \/ diff < mn

\* update_diff_stats: max_diff_time / min_diff_time, set to current_time in
\* the branch that moved the extremum; now is the number of the record that
\* this call writes with that timestamp
NewTime(moved, old_time, now) == IF moved THEN now ELSE old_time

\* mutant: the breaker waits for one failure more
BreakerTrippedLate(n) == n > max_consecutive_errors

\* the breaker test
BreakerTripped(n) == n >= max_consecutive_errors

\* no open notification built
NoNotification == [action |-> "none", price_diff |-> 0]

EmptyCycle ==
    [calendar |-> "unchecked",  \* result of this cycle's calendar check
     fetched  |-> "no",         \* "no" | "ok" | "fail"
     diff     |-> 0,
     queried  |-> FALSE,        \* the cycle's two position queries ran
     bq       |-> 0, xq |-> 0,  \* what they reported
     bq_ok    |-> TRUE, xq_ok |-> TRUE,  \* whether each query succeeded
     attempt  |-> "none",       \* "none" | "open" | "close"
     attempts |-> 0,            \* calls of open_position / close_position
     verified |-> FALSE,        \* open_position ran its own queries
     vb       |-> 0, vx |-> 0,  \* what they reported
     legA     |-> "none",       \* "none" | "ok" | "fail"
     legB     |-> "none",
     result   |-> "none",       \* return value of open/close: "True"|"False"
     exc      |-> "none",       \* exception caught by the loop
     decided  |-> FALSE,        \* the decision rule ran
     paxg     |-> 0, xau |-> 0, \* the price pair
     log0     |-> 0,            \* Len(trade_log) when the cycle started
     nopen0   |-> 0, nclose0 |-> 0,  \* notification counts at cycle start
     tid0     |-> 0,            \* trade_id at cycle start
     ntrades0 |-> 0,            \* total_trades_count at cycle start
     cached   |-> FALSE,        \* position_open at cycle start
     sideA    |-> "none",       \* side passed to place_paxg_order
     sideB    |-> "none",       \* side passed to place_xauusd_order
     level    |-> "none",       \* log level of the leg-B failure message
     note     |-> NoNotification, \* payload of the open notification
     last_diff |-> PosInf,      \* the diff observed last before this cycle
     run      |-> "none",       \* the last of open_position / close_position
                                \* called since the observed diff last changed
     poll     |-> "none",       \* last poll of wait_until_trading_time:
                                \* "open" | "closed" | "cancel"
     outcome  |-> "none",       \* which branch of close_position's report ran
     send_failed |-> "none",    \* the notification send that raised last:
                                \* "window" | "open" | "close" | "shutdown"
     dangling |-> FALSE]        \* the last close left a leg on a venue

\* ------------------------------------------------------------------- Init
InitEngine ==
    /\ pc = "start"
    /\ ENABLE_TRADING_TIME_CHECK \in BOOLEAN
    /\ dingtalk_notifier \in BOOLEAN
    /\ shutdown_called = FALSE
    /\ position_open = FALSE
    /\ trade_id = 0
    /\ total_trades_count = 0
    /\ max_diff = NegInf
    /\ min_diff = PosInf
    /\ last_trading_status = "None"
    /\ consecutive_errors = 0
    /\ binance_legs = 0
    /\ xau_legs = 0
    /\ trade_log = <<>>
    /\ notif_open = 0 /\ notif_close = 0 /\ notif_window = 0 /\ notif_shutdown = 0
    /\ shutdown_log = 0
    /\ is_error_shutdown = "unset"
    /\ cyc = EmptyCycle
    /\ shutdown_calls = 0
    /\ shutdown_cause = "none"
    /\ shutdown_step = "idle"
    /\ shutdown_is_error = "unset"
    /\ exit_code = "none"
    /\ price_fail_run = 0
    /\ fail_run = 0
    /\ failed_cycles = 0
    /\ observed = {}
    /\ max_diff_time = 0
    /\ min_diff_time = 0
    /\ stats_log = 0

\* what get_next_trading_time returns: None, or an instant given as the
\* number of days after today and the time of day
NoInstant(kind) == [kind |-> kind, days |-> 0, tod |-> 0]
Instant(days, tod) == [kind |-> "instant", days |-> days, tod |-> tod]

\* no calendar function has been called
NoCalls == [is_trading |-> "unset", is_break |-> "unset",
            is_weekend |-> "unset", next |-> NoInstant("unset")]

\* the calendar functions are not followed call by call
CalendarIdle ==
    /\ now_eet = [weekday |-> 0, tod |-> 0, ok |-> TRUE]
    /\ cal = NoCalls

\* no order has been sized
NotSized == [legA |-> "unset", qtyA |-> 0, legB |-> "unset", qtyB |-> 0]

\* the order sizes are not followed
SizingIdle ==
    /\ quote = [paxg_price |-> 0, price |-> 0, venue |-> "none"]
    /\ sized = NotSized

\* the state after ArbitrageManager() returned
Init ==
    /\ InitEngine /\ counting = FALSE /\ tracing = FALSE
    /\ CalendarIdle /\ SizingIdle /\ queries_fail = TRUE

\* the send raises; send_ok is what the notifier and the network do
SendRaises(send_ok) == tracing /\ ~send_ok

\* ------------------------------------------------------- shutdown_system
ShutdownVars == <<shutdown_called, shutdown_log, notif_shutdown,
                  is_error_shutdown, shutdown_calls, shutdown_cause,
                  shutdown_step, shutdown_is_error>>

\* mutant: shutdown_system without its guard
NeverShutDown == FALSE

\* the guard at the top of shutdown_system
AlreadyShutDown == shutdown_called

\* shutdown_system(shutdown_reason, is_error) up to the notification block:
\* the guard, the flag and the log line; cause names the caller
ShutdownSystem(cause, is_error) ==
    /\ shutdown_calls' = shutdown_calls + 1
    /\ IF AlreadyShutDown
       THEN UNCHANGED <<shutdown_called, shutdown_log, shutdown_cause,
                        shutdown_step, shutdown_is_error>>
       ELSE /\ shutdown_called' = TRUE
            /\ shutdown_log' = shutdown_log + 1
            /\ shutdown_cause' = IF shutdown_cause = "none" THEN cause
                                 ELSE shutdown_cause
            /\ shutdown_step' = "flagged"
            /\ shutdown_is_error' = BoolStr(is_error)
    /\ UNCHANGED <<notif_shutdown, is_error_shutdown>>

\* the pc values at which a shutdown_system call is between the flag and
\* the notification: called from the loop, from signal_handler, from
\* signal_handler while the thread is under the bare `except:` of
\* _calculate_total_profit_after_close, from exit_handler, from main's
\* `except Exception`
ShuttingPcs == {"shutting", "shutting_sig", "shutting_swallow",
                "shutting_exit", "shutting_main"}

\* the rest of shutdown_system: the notification block, then back to the
\* caller (the loop breaks; signal_handler calls sys.exit(0), which the bare
\* `except:` swallows; exit_handler ends the process; main re-raises).  A
\* call that returned at the guard has no notification block.
ShutdownNotify ==
    /\ pc \in ShuttingPcs
    /\ IF dingtalk_notifier /\ shutdown_step = "flagged"
       THEN /\ notif_shutdown' = notif_shutdown + 1
            /\ is_error_shutdown' = shutdown_is_error
            /\ \E send_ok \in BOOLEAN :
                 cyc' = [cyc EXCEPT
                           !.send_failed =
                              IF SendRaises(send_ok) THEN "shutdown" ELSE @]
       ELSE UNCHANGED <<notif_shutdown, is_error_shutdown, cyc>>
    /\ shutdown_step' = "done"
    /\ pc' = IF pc = "shutting" THEN "exited"
             ELSE IF pc = "shutting_swallow" THEN "sleep"
             ELSE "terminated"
    /\ exit_code' = IF pc \in {"shutting", "shutting_swallow"} THEN exit_code
                    ELSE IF pc = "shutting_main" THEN "1" ELSE "0"
    /\ UNCHANGED <<shutdown_called, shutdown_log, shutdown_calls,
                   shutdown_cause, shutdown_is_error, position_open, trade_id,
                   total_trades_count, trade_log, notif_open, notif_close,
                   binance_legs, xau_legs, max_diff, min_diff, observed,
                   max_diff_time, min_diff_time, stats_log,
                   ENABLE_TRADING_TIME_CHECK, dingtalk_notifier, counting,
                   tracing, now_eet, cal, quote, sized, queries_fail,
                   last_trading_status, notif_window, consecutive_errors,
                   price_fail_run, fail_run, failed_cycles>>

\* mutant: the breaker reports a graceful shutdown
BreakerNotError == FALSE

\* is_error passed by the price-fetch breaker and by the exception handler
BreakerIsError == TRUE
\* is_error passed on KeyboardInterrupt and by the signal / exit handlers
UserIsError == FALSE
\* is_error passed by main's `except Exception`
MainIsError == TRUE

\* ------------------------------------------- trading-window bookkeeping
\* _check_and_notify_trading_status_change with is_trading_time() = t
\* mutant: every observation of an open market counts as a change
StatusChangedOnOpen(last, now) == last # "None" /\ now = "True"

\* `self.last_trading_status is not None and self.last_trading_status != is_trading`
StatusChanged(last, now) == last # "None" /\ last # now

\* mutant: an exception of the send escapes to the caller's handler
NotifyResultPropagated(op_result, send_raised) ==
    IF send_raised THEN "False" ELSE op_result

\* every send sits in its own `try: ... except Exception: logger.warning`:
\* the value the operation returns does not depend on the send
NotifyResult(op_result, send_raised) == op_result

\* the status notification is sent for this observation
WindowSend(t) ==
    StatusChanged(last_trading_status, BoolStr(t)) /\ dingtalk_notifier

CheckAndNotify(t) ==
    /\ notif_window' = IF WindowSend(t) THEN notif_window + 1 ELSE notif_window
    /\ notif_window' <= MaxWindow
    /\ last_trading_status' = BoolStr(t)

EngineVars  == <<position_open, trade_id, total_trades_count, trade_log,
                 notif_open, notif_close>>
VenueVars   == <<binance_legs, xau_legs>>
StatsVars   == <<max_diff, min_diff, observed, max_diff_time, min_diff_time,
                 stats_log>>
ConfigVars  == <<ENABLE_TRADING_TIME_CHECK, dingtalk_notifier, counting,
                 tracing, now_eet, cal, quote, sized, queries_fail>>
\* a value that no decision of the engine reads (the statistics file, the
\* two timestamps) is followed only where counting is set
Kept(new, old) == IF counting THEN new ELSE old

\* one more failed cycle in the run
CountFailed(n) == IF counting THEN n + 1 ELSE n

BreakerVars == <<consecutive_errors, price_fail_run, fail_run, failed_cycles>>
WindowVars  == <<last_trading_status, notif_window>>

\* snapshot taken when a poll cycle starts
NewCycle ==
    [EmptyCycle EXCEPT !.log0 = Len(trade_log), !.nopen0 = notif_open,
                       !.nclose0 = notif_close, !.tid0 = trade_id,
                       !.ntrades0 = total_trades_count,
                       !.cached = position_open,
                       !.last_diff =
                          IF tracing /\ cyc.fetched = "ok" THEN cyc.diff
                          ELSE cyc.last_diff,
                       !.run =
                          IF tracing /\ cyc.attempt # "none" THEN cyc.attempt
                          ELSE cyc.run,
                       !.dangling =
                          IF cyc.attempt = "close" /\ cyc.result # "none"
                          THEN (binance_legs > 0) \/ (xau_legs > 0)
                          ELSE cyc.dangling]

\* ---------------------------------------------------------- monitor_prices
\* the code before the loop
MonitorStart ==
    /\ pc = "start"
    /\ consecutive_errors' = 0
    /\ IF ENABLE_TRADING_TIME_CHECK
       THEN \E t \in BOOLEAN :
              /\ last_trading_status' = BoolStr(t)
              /\ pc' = IF t THEN "loop_head" ELSE "init_wait"
       ELSE /\ last_trading_status' = "True"
            /\ pc' = "loop_head"
    /\ UNCHANGED <<EngineVars, VenueVars, StatsVars, ConfigVars, exit_code,
                   ShutdownVars,
                   notif_window, cyc, price_fail_run, fail_run,
                   failed_cycles>>

\* what one pass of the loop of wait_until_trading_time can meet:
\* is_trading_time() true, false (or an exception, handled like false by
\* sleeping), or a KeyboardInterrupt
Polls == {"open", "closed", "cancel"}

\* mutant: the wait returns after any poll
WaitReturnsOnClosed(poll) == TRUE

\* the two `break`s of wait_until_trading_time
WaitReturns(poll) == poll = "open" \/ poll = "cancel"

\* wait_until_trading_time before the loop: one poll of the calendar.
\* A KeyboardInterrupt inside the wait is caught there and the wait returns.
InitWaitPoll(poll) ==
    /\ pc = "init_wait"
    /\ IF WaitReturns(poll)
       THEN \E t \in BOOLEAN, send_ok \in BOOLEAN :
              /\ CheckAndNotify(t)
              /\ cyc' = [cyc EXCEPT
                           !.poll = poll,
                           !.send_failed =
                              IF WindowSend(t) /\ SendRaises(send_ok)
                              THEN "window"
                              ELSE @]
              /\ pc' = "loop_head"
       ELSE /\ cyc' = [cyc EXCEPT !.poll = poll]
            /\ UNCHANGED <<WindowVars, pc>>
    /\ UNCHANGED <<EngineVars, VenueVars, StatsVars, ConfigVars, exit_code,
                   ShutdownVars,
                   BreakerVars>>

InitWait == \E poll \in Polls : InitWaitPoll(poll)

\* mutant: a closed market does not stop the cycle
MarketClosedIgnored(t) == FALSE

\* `if not is_trading:` after the calendar check of the cycle
MarketClosed(t) == ~t

\* mutant: the loop does not look at the flag
LoopContinuesAlways == TRUE

\* `while not self._shutdown_called:`
LoopContinues == ~shutdown_called

\* top of the while loop and the calendar check of the cycle
LoopHead ==
    /\ pc = "loop_head"
    /\ IF ~LoopContinues
       THEN /\ pc' = "exited"
            /\ UNCHANGED <<WindowVars, cyc>>
       ELSE IF ENABLE_TRADING_TIME_CHECK
            THEN \E t \in BOOLEAN, send_ok \in BOOLEAN :
                   /\ CheckAndNotify(t)
                   /\ cyc' = [NewCycle EXCEPT
                                !.calendar = IF t THEN "open" ELSE "closed",
                                !.send_failed =
                                IF WindowSend(t) /\ SendRaises(send_ok)
                              THEN "window"
                                ELSE @]
                   /\ pc' = IF MarketClosed(t) THEN "wait" ELSE "fetch"
            ELSE /\ cyc' = NewCycle
                 /\ pc' = "fetch"
                 /\ UNCHANGED WindowVars
    /\ UNCHANGED <<EngineVars, VenueVars, StatsVars, ConfigVars, exit_code,
                   ShutdownVars,
                   BreakerVars>>

\* wait_until_trading_time inside the loop: one poll; on return the error
\* counter is reset and the loop continues
CalendarWaitPoll(poll) ==
    /\ pc = "wait"
    /\ cyc' = [cyc EXCEPT !.poll = poll]
    /\ IF WaitReturns(poll)
       THEN /\ consecutive_errors' = 0
            /\ fail_run' = 0
            /\ failed_cycles' = 0
            /\ pc' = "loop_head"
       ELSE UNCHANGED <<consecutive_errors, fail_run, failed_cycles, pc>>
    /\ UNCHANGED <<EngineVars, VenueVars, StatsVars, ConfigVars, exit_code,
                   ShutdownVars,
                   WindowVars, price_fail_run>>

CalendarWait == \E poll \in Polls : CalendarWaitPoll(poll)

\* mutant: a missing price is not counted
CountErrorNever(n) == n
\* consecutive_errors += 1 after a missing price
CountError(n) == n + 1

\* a run length that is followed up to MaxFailRun
Capped(n) == IF n < MaxFailRun THEN n + 1 ELSE n

\* get_prices returned (None, None)
FetchFail ==
    /\ pc = "fetch"
    /\ failed_cycles < MaxFailRun
    /\ failed_cycles' = CountFailed(failed_cycles)
    /\ consecutive_errors' = CountError(consecutive_errors)
    /\ price_fail_run' = Capped(price_fail_run)
    /\ fail_run' = Capped(fail_run)
    /\ cyc' = [cyc EXCEPT !.fetched = "fail"]
    /\ IF BreakerTripped(consecutive_errors')
       THEN ShutdownSystem("breaker", BreakerIsError) /\ pc' = "shutting"
       ELSE pc' = "loop_head" /\ UNCHANGED ShutdownVars
    /\ UNCHANGED <<EngineVars, VenueVars, StatsVars, ConfigVars, exit_code,
                   WindowVars>>

\* get_prices returned both prices: reset the counter, update_diff_stats
FetchOk ==
    /\ pc = "fetch"
    /\ \E paxg_price \in PaxgPrices, xauusd_price \in XauPrices :
         LET diff == paxg_price - xauusd_price IN
         /\ max_diff' = NewMax(diff, max_diff)
         /\ min_diff' = NewMin(diff, min_diff)
         /\ observed' = observed \cup {diff}
         /\ max_diff_time' =
               Kept(NewTime(diff > max_diff, max_diff_time, stats_log + 1),
                    max_diff_time)
         /\ min_diff_time' =
               Kept(NewTime(diff < min_diff, min_diff_time, stats_log + 1),
                    min_diff_time)
         /\ stats_log' =
               Kept(IF Updated(diff, max_diff, min_diff)
                    THEN stats_log + 1 ELSE stats_log, stats_log)
         /\ cyc' = [cyc EXCEPT !.fetched = "ok", !.diff = diff,
                               !.paxg = paxg_price, !.xau = xauusd_price,
                               !.run = IF diff = cyc.last_diff THEN @
                                       ELSE "none"]
    /\ consecutive_errors' = 0
    /\ price_fail_run' = 0
    /\ fail_run' = 0
    /\ pc' = "query"
    /\ UNCHANGED failed_cycles
    /\ UNCHANGED <<EngineVars, VenueVars, ConfigVars, exit_code,
                   ShutdownVars, WindowVars>>

\* what a get_open_positions call can do: succeed, or fail inside
QueryOutcomes == IF queries_fail THEN BOOLEAN ELSE {TRUE}

\* the cycle's two get_open_positions calls
QueryPositions ==
    /\ pc = "query"
    /\ \E bok \in QueryOutcomes, xok \in QueryOutcomes :
         cyc' = [cyc EXCEPT !.queried = TRUE,
                            !.bq = GetOpenPositions(binance_legs, bok),
                            !.xq = GetOpenPositions(xau_legs, xok),
                            !.bq_ok = bok, !.xq_ok = xok]
    /\ pc' = "decide"
    /\ UNCHANGED <<EngineVars, VenueVars, StatsVars, ConfigVars, exit_code,
                   ShutdownVars,
                   WindowVars, BreakerVars>>

\* mutant: the decision trusts the cached flag
HasPositionsCached == position_open

\* the branch condition of the decision: `if xau_positions or binance_positions`
HasPositions == (cyc.xq > 0) \/ (cyc.bq > 0)

\* the decision of the cycle
Decide ==
    /\ pc = "decide"
    /\ IF HasPositions
       THEN IF ShouldClosePosition(cyc.diff, cyc.bq, cyc.xq)
            THEN /\ cyc' = [cyc EXCEPT !.decided = TRUE, !.attempt = "close",
                                       !.attempts = @ + 1]
                 /\ pc' = "close"
            ELSE /\ cyc' = [cyc EXCEPT !.decided = TRUE]
                 /\ pc' = "sleep"
       ELSE IF ShouldOpen(cyc.diff)
            THEN /\ cyc' = [cyc EXCEPT !.decided = TRUE, !.attempt = "open",
                                       !.attempts = @ + 1]
                 /\ pc' = "open_verify"
            ELSE /\ cyc' = [cyc EXCEPT !.decided = TRUE]
                 /\ pc' = "sleep"
    /\ UNCHANGED <<EngineVars, VenueVars, StatsVars, ConfigVars, exit_code,
                   ShutdownVars,
                   WindowVars, BreakerVars>>

\* ------------------------------------------------------------ open_position
\* mutant: only the Binance guard
AlreadyOpenBinanceOnly(bpos, xpos) == bpos > 0

\* the two guards after open_position's own position queries
AlreadyOpen(bpos, xpos) == (bpos > 0) \/ (xpos > 0)

\* mutant: leg A's failure does not abort
NoAbortOnLegAFailure(paxg_order_ok) == FALSE

\* `if paxg_order is None: return False`
AbortOnLegAFailure(paxg_order_ok) == ~paxg_order_ok

\* action string / sides chosen from the sign of diff
OpenAction(diff) ==
    IF diff > 0 THEN "SELL PAXG, LONG XAUUSD" ELSE "BUY PAXG, SHORT XAUUSD"

\* paxg_side
PaxgSide(diff) == IF diff > 0 THEN "SELL" ELSE "BUY"

\* mutant: leg B on the same side as leg A
XauActionSameSide(diff) == IF diff > 0 THEN "SELL" ELSE "BUY"

\* xau_action
XauAction(diff) == IF diff > 0 THEN "BUY" ELSE "SELL"

\* str.lower() on the two side names
Lower(side) == IF side = "BUY" THEN "buy"
               ELSE IF side = "SELL" THEN "sell" ELSE side

\* level of the message logged when leg B's order returned None
LegBFailureLevel == "WARNING"

\* value open_position returns once leg A is filled, whatever leg B did
OpenResult(xau_ok) == "True"

\* trade_data of the open notification; no field depends on leg B's result
OpenNotification(diff, xau_ok) ==
    [action |-> OpenAction(diff), price_diff |-> diff]

\* open_position up to the point where the orders start: re-verification and
\* trade_id += 1
OpenVerify ==
    /\ pc = "open_verify"
    /\ \E bok \in QueryOutcomes, xok \in QueryOutcomes :
         LET vb == GetOpenPositions(binance_legs, bok)
             vx == GetOpenPositions(xau_legs, xok)
         IN  IF AlreadyOpen(vb, vx)
             THEN /\ cyc' = [cyc EXCEPT !.verified = TRUE, !.vb = vb, !.vx = vx,
                                        !.result = "False"]
                  /\ pc' = "sleep"
                  /\ UNCHANGED trade_id
             ELSE /\ cyc' = [cyc EXCEPT !.verified = TRUE, !.vb = vb, !.vx = vx]
                  /\ trade_id < MaxTrades
                  /\ trade_id' = trade_id + 1
                  /\ pc' = "open_legA"
    /\ UNCHANGED <<position_open, total_trades_count, trade_log, notif_open,
                   notif_close, VenueVars, StatsVars, ConfigVars, exit_code,
                   ShutdownVars,
                   WindowVars, BreakerVars>>

\* leg A: binance.place_paxg_order
OpenLegA ==
    /\ pc = "open_legA"
    /\ \E paxg_order_ok \in BOOLEAN :
         /\ paxg_order_ok => binance_legs < MaxLegs
         /\ IF AbortOnLegAFailure(paxg_order_ok)
            THEN /\ cyc' = [cyc EXCEPT !.legA = "fail", !.result = "False",
                                       !.sideA = PaxgSide(cyc.diff)]
                 /\ pc' = "sleep"
                 /\ UNCHANGED binance_legs
            ELSE /\ cyc' = [cyc EXCEPT
                              !.legA = IF paxg_order_ok THEN "ok" ELSE "fail",
                              !.sideA = PaxgSide(cyc.diff)]
                 /\ binance_legs' = IF paxg_order_ok THEN binance_legs + 1
                                    ELSE binance_legs
                 /\ pc' = "open_legB"
    /\ UNCHANGED <<EngineVars, xau_legs, StatsVars, ConfigVars, exit_code,
                   ShutdownVars,
                   WindowVars, BreakerVars>>

\* mutant: the open is not counted
NextTradesCountSkip(n) == n

\* `self.total_trades_count += 1`
NextTradesCount(n) == n + 1

\* leg B (place_xauusd_order) and the rest of open_position: cached flag,
\* log_trade, trade counter, open notification, return True
OpenLegB ==
    /\ pc = "open_legB"
    /\ \E xau_ok \in BOOLEAN, send_ok \in BOOLEAN :
         /\ xau_ok => xau_legs < MaxLegs
         /\ xau_legs' = IF xau_ok THEN xau_legs + 1 ELSE xau_legs
         /\ cyc' = [cyc EXCEPT
                      !.legB = IF xau_ok THEN "ok" ELSE "fail",
                      !.sideB = Lower(XauAction(cyc.diff)),
                      !.level = IF xau_ok THEN "none" ELSE LegBFailureLevel,
                      !.note = IF dingtalk_notifier
                               THEN OpenNotification(cyc.diff, xau_ok)
                               ELSE NoNotification,
                      !.send_failed =
                         IF dingtalk_notifier /\ SendRaises(send_ok)
                         THEN "open" ELSE @,
                      !.result =
                         NotifyResult(OpenResult(xau_ok),
                                      dingtalk_notifier /\ SendRaises(send_ok))]
    /\ position_open' = TRUE
    /\ Len(trade_log) < MaxLog
    /\ trade_log' = Append(trade_log,
                           [trade_type |-> "OPEN", trade_id |-> trade_id,
                            price_diff |-> cyc.diff,
                            action |-> OpenAction(cyc.diff)])
    /\ total_trades_count' = NextTradesCount(total_trades_count)
    /\ notif_open' = IF dingtalk_notifier THEN notif_open + 1 ELSE notif_open
    /\ pc' = "sleep"
    /\ UNCHANGED <<trade_id, notif_close, binance_legs, StatsVars, ConfigVars,
                   exit_code, ShutdownVars, WindowVars, BreakerVars>>

\* ----------------------------------------------------------- close_position
\* a venue's close_all_positions: <<returned value, legs left>>
CloseAllPositions(legs, query_ok, order_ok) ==
    IF GetOpenPositions(legs, query_ok) = 0 THEN <<TRUE, legs>>
    ELSE IF order_ok THEN <<TRUE, 0>>
    ELSE <<FALSE, legs>>

\* mutant: a CLOSE record only when both venues closed
CloseRecordedBoth(binance_success, xau_success) ==
    binance_success /\ xau_success

\* `if binance_success or xau_success: self.log_trade("CLOSE", ...)`
CloseRecorded(binance_success, xau_success) ==
    binance_success \/ xau_success

\* mutant: the report looks at Binance first and stops there
CloseOutcomeBinanceFirst(binance_success, xau_success) ==
    IF binance_success
    THEN (IF xau_success THEN "BothClosed" ELSE "PartialClose")
    ELSE "NoneClosed"

\* the if/elif chain that reports the result of close_position
CloseOutcome(binance_success, xau_success) ==
    IF binance_success /\ xau_success THEN "BothClosed"
    ELSE IF binance_success THEN "PartialClose"
    ELSE IF xau_success THEN "PartialClose"
    ELSE "NoneClosed"

\* mutant: after a close the cycle decides again
AfterCloseDecides == "decide"
\* where the cycle goes when close_position has returned: past the else
\* branch with the open check, to the sleep that ends the cycle
AfterClose == "sleep"

\* close_position, and _calculate_total_profit_after_close when it returned
\* True; send_ok is the close notification's send, profit_ok the profit
\* summary's
ClosePosition ==
    /\ pc = "close"
    /\ \E bq_ok \in QueryOutcomes, bo_ok \in BOOLEAN, xq_ok \in QueryOutcomes,
          xo_ok \in BOOLEAN, send_ok \in BOOLEAN, profit_ok \in BOOLEAN :
         LET b == CloseAllPositions(binance_legs, bq_ok, bo_ok)
             x == CloseAllPositions(xau_legs, xq_ok, xo_ok)
             binance_success == b[1]
             xau_success == x[1]
             outcome == CloseOutcome(binance_success, xau_success)
             send_raised == /\ dingtalk_notifier
                            /\ SendRaises(send_ok) \/ SendRaises(profit_ok)
         IN  /\ binance_legs' = b[2]
             /\ xau_legs' = x[2]
             /\ IF CloseRecorded(binance_success, xau_success)
                THEN /\ Len(trade_log) < MaxLog
                     /\ trade_log' = Append(trade_log,
                           [trade_type |-> "CLOSE", trade_id |-> trade_id,
                            price_diff |-> cyc.diff,
                            action |-> "MARKET_CLOSE_ALL"])
                ELSE UNCHANGED trade_log
             /\ IF outcome # "NoneClosed"
                THEN /\ position_open' = FALSE
                     /\ notif_close' = IF dingtalk_notifier THEN notif_close + 1
                                       ELSE notif_close
                     /\ cyc' = [cyc EXCEPT
                                  !.result = NotifyResult("True", send_raised),
                                  !.outcome = outcome,
                                  !.send_failed =
                                     IF send_raised THEN "close" ELSE @,
                                  !.legA = IF binance_success THEN "ok" ELSE "fail",
                                  !.legB = IF xau_success THEN "ok" ELSE "fail"]
                ELSE /\ UNCHANGED <<position_open, notif_close>>
                     /\ cyc' = [cyc EXCEPT !.result = "False",
                                           !.outcome = outcome,
                                           !.legA = "fail", !.legB = "fail"]
    /\ pc' = AfterClose
    /\ UNCHANGED <<trade_id, total_trades_count, notif_open, StatsVars,
                   ConfigVars, exit_code, ShutdownVars, WindowVars, BreakerVars>>

\* time.sleep(PRICE_CHECK_INTERVAL) at the end of the cycle
Sleep ==
    /\ pc = "sleep"
    /\ pc' = "loop_head"
    /\ failed_cycles' = 0
    /\ UNCHANGED <<EngineVars, VenueVars, StatsVars, ConfigVars, exit_code,
                   ShutdownVars, WindowVars, consecutive_errors, price_fail_run,
                   fail_run, cyc>>

\* ------------------------------------------------------ exception handlers
InTry == pc \in {"fetch", "query", "decide", "open_verify", "open_legA",
                 "open_legB", "close", "sleep"}

\* mutant: no exception is classified fatal
IsFatalNever(kind) == FALSE

\* `"ConnectionError" in str(e) or "APIError" in str(e)`
IsFatal(kind) == kind = "fatal"

\* `except Exception` of the loop; the statements that can raise come after
\* the counter reset
CycleException ==
    /\ pc = "query"
    /\ failed_cycles < MaxFailRun
    /\ failed_cycles' = CountFailed(failed_cycles)
    /\ \E kind \in {"plain", "fatal"} :
         /\ cyc' = [cyc EXCEPT !.exc = kind]
         /\ consecutive_errors' = consecutive_errors + 1
         /\ fail_run' = fail_run + 1
         /\ IF BreakerTripped(consecutive_errors')
            THEN ShutdownSystem("breaker", BreakerIsError) /\ pc' = "shutting"
            ELSE IF IsFatal(kind)
            THEN ShutdownSystem("fatal", BreakerIsError) /\ pc' = "shutting"
            ELSE pc' = "loop_head" /\ UNCHANGED ShutdownVars
    /\ UNCHANGED <<EngineVars, VenueVars, StatsVars, ConfigVars, exit_code,
                   WindowVars,
                   price_fail_run>>

\* `except KeyboardInterrupt` of the loop
KeyboardInterrupt ==
    /\ InTry
    /\ ShutdownSystem("interrupt", UserIsError)
    /\ pc' = "shutting"
    /\ UNCHANGED <<EngineVars, VenueVars, StatsVars, ConfigVars, exit_code,
                   WindowVars, BreakerVars, cyc>>

\* ------------------------------------------------------------------ main.py
\* The thread may be inside the `try: ... except: pass` of
\* _calculate_total_profit_after_close, which runs when close_position
\* returned True and before the sleep of the cycle; an exception raised
\* there, SystemExit included, is dropped and the thread goes on.  (A second
\* signal at the same place is not followed.)
UnderBareExcept ==
    pc = "sleep" /\ cyc.attempt = "close" /\ cyc.result = "True"

\* signal_handler: shutdown_system, then sys.exit(0).  The handler runs
\* between two bytecodes of the main thread, wherever that thread is; the
\* SystemExit it raises is caught by no `except Exception`, and exit_handler
\* finds the flag set.
SignalHandler ==
    /\ pc # "terminated"
    /\ ShutdownSystem("signal", UserIsError)
    /\ IF AlreadyShutDown
       THEN pc' = "terminated" /\ exit_code' = "0"
       ELSE /\ \/ pc' = "shutting_sig"
               \/ UnderBareExcept /\ pc' = "shutting_swallow"
            /\ UNCHANGED exit_code
    /\ UNCHANGED <<EngineVars, VenueVars, StatsVars, ConfigVars, WindowVars,
                   BreakerVars, cyc>>

\* monitor_prices returned: main ends and atexit runs exit_handler
ProcessExit ==
    /\ pc = "exited"
    /\ IF ~shutdown_called
       THEN /\ ShutdownSystem("exit", UserIsError)
            /\ pc' = "shutting_exit"
            /\ UNCHANGED exit_code
       ELSE /\ UNCHANGED ShutdownVars
            /\ pc' = "terminated"
            /\ exit_code' = "0"
    /\ UNCHANGED <<EngineVars, VenueVars, StatsVars, ConfigVars, WindowVars,
                   BreakerVars, cyc>>

\* an exception leaves monitor_prices (the statements before the loop are in
\* no try block): main's `except Exception` calls shutdown_system and re-raises
MainException ==
    /\ pc = "start"
    /\ ShutdownSystem("error", MainIsError)
    /\ pc' = "shutting_main"
    /\ UNCHANGED <<EngineVars, VenueVars, StatsVars, ConfigVars, exit_code,
                   WindowVars, BreakerVars, cyc>>

Next ==
    \/ MonitorStart
    \/ InitWait
    \/ LoopHead
    \/ CalendarWait
    \/ FetchFail
    \/ FetchOk
    \/ QueryPositions
    \/ Decide
    \/ OpenVerify
    \/ OpenLegA
    \/ OpenLegB
    \/ ClosePosition
    \/ Sleep
    \/ CycleException
    \/ KeyboardInterrupt
    \/ SignalHandler
    \/ ProcessExit
    \/ MainException
    \/ ShutdownNotify

Spec == Init /\ [][Next]_vars

\* The monitoring loop alone (no order is placed, no signal arrives), with
\* the run of failed cycles counted in failed_cycles.
InitFailures ==
    /\ InitEngine /\ counting = TRUE /\ tracing = FALSE
    /\ CalendarIdle /\ SizingIdle /\ queries_fail = TRUE

NextFailures ==
    \/ MonitorStart
    \/ InitWait
    \/ LoopHead
    \/ CalendarWait
    \/ FetchFail
    \/ FetchOk
    \/ QueryPositions
    \/ Decide
    \/ Sleep
    \/ CycleException
    \/ ShutdownNotify
    \/ ProcessExit

SpecFailures == InitFailures /\ [][NextFailures]_vars

\* The loop with its calendar waits, undisturbed: neither order placement
\* nor failure nor signal.  Inside wait_until_trading_time the thread only
\* polls and sleeps, so the next poll always comes (weak fairness of the
\* wait); the calendar reporting open at some poll is weak fairness of the
\* poll that reports open, which is possible at every pass.
NextWait ==
    \/ MonitorStart
    \/ InitWait
    \/ LoopHead
    \/ CalendarWait
    \/ FetchOk
    \/ QueryPositions
    \/ Decide
    \/ Sleep

\* The loop during an outage of the price feeds: every get_prices call
\* returns no price.  The main thread is never blocked outside the calendar
\* wait and time.sleep, so each of its steps is taken when it is due (weak
\* fairness); inside the wait the next poll always comes, and the calendar
\* reports open at some poll.
NextOutage ==
    \/ MonitorStart
    \/ InitWait
    \/ LoopHead
    \/ CalendarWait
    \/ FetchFail
    \/ ShutdownNotify
    \/ ProcessExit

SpecOutage ==
    /\ Init
    /\ [][NextOutage]_vars
    /\ WF_vars(MonitorStart) /\ WF_vars(LoopHead) /\ WF_vars(FetchFail)
    /\ WF_vars(ShutdownNotify) /\ WF_vars(ProcessExit)
    /\ WF_vars(InitWait) /\ WF_vars(CalendarWait)
    /\ WF_vars(InitWaitPoll("open")) /\ WF_vars(CalendarWaitPoll("open"))

\* The engine without signals, keyboard interrupts and missing prices, with
\* the sends of the notifier allowed to raise and the run of cycles at one
\* diff followed.
InitTrading ==
    /\ InitEngine /\ counting = FALSE /\ tracing = TRUE
    /\ CalendarIdle /\ SizingIdle /\ queries_fail = TRUE

NextTrading ==
    \/ MonitorStart
    \/ InitWait
    \/ LoopHead
    \/ CalendarWait
    \/ FetchOk
    \/ QueryPositions
    \/ Decide
    \/ OpenVerify
    \/ OpenLegA
    \/ OpenLegB
    \/ ClosePosition
    \/ Sleep
    \/ CycleException
    \/ ShutdownNotify
    \/ ProcessExit

SpecTrading == InitTrading /\ [][NextTrading]_vars

SpecWait ==
    /\ Init
    /\ [][NextWait]_vars
    /\ WF_vars(InitWait) /\ WF_vars(CalendarWait)
    /\ WF_vars(InitWaitPoll("open")) /\ WF_vars(CalendarWaitPoll("open"))

\* ===================================================================
\* Properties
\* ===================================================================
SetMax(S) == CHOOSE x \in S : \A y \in S : y <= x
SetMin(S) == CHOOSE x \in S : \A y \in S : x <= y

\* C1: when open_position's own re-verification reports a leg on Binance or on
\* the XAU venue, the call places no order on either venue, appends no trade
\* record, sends no open notification, returns False, and the skip is not
\* counted as an error (the consecutive-error counter stays at zero and no
\* exception is recorded).
C1_SkipWhenAlreadyOpen ==
    (cyc.verified /\ (cyc.vb > 0 \/ cyc.vx > 0)) =>
        /\ cyc.legA = "none" /\ cyc.legB = "none"
        /\ Len(trade_log) = cyc.log0
        /\ notif_open = cyc.nopen0
        /\ trade_id = cyc.tid0
        /\ cyc.result = "False"
        /\ cyc.exc = "none"
        /\ consecutive_errors = 0

C1_Witness ==
    /\ pc = "sleep"
    /\ cyc.attempt = "open" /\ cyc.verified
    /\ cyc.vx > 0 /\ cyc.vb = 0

\* C2: if leg A's order fails during an open, leg B's order is never submitted
\* in that operation and the open returns False.
C2_FailFast ==
    (cyc.attempt = "open" /\ cyc.legA = "fail") =>
        /\ cyc.legB = "none"
        /\ cyc.result = "False"
        /\ pc \notin {"open_legB"}

C2_Witness ==
    /\ pc = "sleep"
    /\ cyc.attempt = "open" /\ cyc.legA = "fail" /\ cyc.result = "False"

\* C3: in a cycle that reached its decision with both position queries
\* reporting no leg, open_position is called (once) exactly when
\* abs(diff) >= MIN_PRICE_DIFF.
C3_OpenRule ==
    (cyc.decided /\ cyc.bq = 0 /\ cyc.xq = 0) =>
        /\ (cyc.attempt = "open") <=> (Abs(cyc.diff) >= MIN_PRICE_DIFF)
        /\ cyc.attempt # "close"
        /\ cyc.attempts = (IF Abs(cyc.diff) >= MIN_PRICE_DIFF THEN 1 ELSE 0)

C3_Witness ==
    /\ cyc.decided /\ cyc.bq = 0 /\ cyc.xq = 0
    /\ cyc.diff = MIN_PRICE_DIFF
    /\ cyc.attempt = "open"

\* C4: in a cycle that reached its decision with a leg reported on at least one
\* venue, close_position is called exactly when abs(diff) <= CLOSE_PRICE_DIFF;
\* and should_close_position is false for every diff when neither venue holds
\* a leg.
C4_CloseRule ==
    /\ (cyc.decided /\ (cyc.bq > 0 \/ cyc.xq > 0)) =>
          /\ (cyc.attempt = "close") <=> (Abs(cyc.diff) <= CLOSE_PRICE_DIFF)
          /\ cyc.attempt # "open"
    /\ cyc.fetched = "ok" => ~ShouldClosePosition(cyc.diff, 0, 0)

C4_Witness ==
    /\ cyc.decided /\ cyc.bq > 0 /\ cyc.xq = 0
    /\ cyc.diff = CLOSE_PRICE_DIFF
    /\ cyc.attempt = "close"

\* C5 (as claimed): in a cycle in which the position query of either venue
\* failed, the engine attempts neither an open nor a close.
C5_NoActionOnFailedQuery ==
    (cyc.decided /\ (~cyc.bq_ok \/ ~cyc.xq_ok)) => cyc.attempt = "none"

\* C6: the action of a cycle is a function of the diff and of the two live
\* query results alone; the cached position_open flag does not enter it, so
\* runs that agree on prices and query results agree on the actions whatever
\* the cached value is.
C6_DecisionFromLiveState ==
    cyc.decided =>
        cyc.attempt =
            IF cyc.bq > 0 \/ cyc.xq > 0
            THEN (IF Abs(cyc.diff) <= CLOSE_PRICE_DIFF THEN "close" ELSE "none")
            ELSE (IF Abs(cyc.diff) >= MIN_PRICE_DIFF THEN "open" ELSE "none")

\* the cached flag says "no position" and the engine closes all the same
C6_Witness ==
    /\ cyc.decided /\ ~cyc.cached /\ ~position_open
    /\ cyc.attempt = "close"

\* C7: however often shutdown_system is called, one shutdown log entry is
\* written and, once the first call has run to its end, one shutdown
\* notification has been sent (with a notifier configured); a call made once
\* the flag is set changes nothing.
C7_IdempotentShutdown ==
    [][ /\ (shutdown_calls' >= 1) => shutdown_log' = 1
        /\ (shutdown_step' = "done") =>
              notif_shutdown' = (IF dingtalk_notifier THEN 1 ELSE 0)
        /\ (shutdown_called /\ shutdown_calls' > shutdown_calls) =>
              UNCHANGED <<shutdown_called, shutdown_log, notif_shutdown,
                          is_error_shutdown, shutdown_cause>> ]_vars

C7_Witness ==
    /\ shutdown_calls >= 2 /\ shutdown_step = "done"
    /\ dingtalk_notifier /\ notif_shutdown = 1 /\ shutdown_log = 1

\* C8 (as claimed): the breaker shuts down after exactly max_consecutive_errors
\* consecutive price-fetch failures and no fewer.
C8_BreakerCountsPriceFailures ==
    /\ shutdown_cause = "breaker" => price_fail_run = max_consecutive_errors
    /\ price_fail_run >= max_consecutive_errors => shutdown_called

\* C8 (amended): the breaker shuts down exactly when max_consecutive_errors
\* cycles have failed (price-fetch failure or non-fatal exception) with no
\* successful price fetch and no return from a calendar wait in between, and
\* not before; a successful price fetch resets the counter to zero.
C8_BreakerCountsFailedCycles ==
    /\ consecutive_errors = fail_run
    /\ shutdown_cause = "breaker" => fail_run = max_consecutive_errors
    /\ fail_run >= max_consecutive_errors =>
          shutdown_called /\ shutdown_cause = "breaker"
    /\ (cyc.fetched = "ok" /\ cyc.exc = "none") => consecutive_errors = 0

C8_Witness ==
    /\ shutdown_cause = "breaker"
    /\ fail_run = max_consecutive_errors
    /\ price_fail_run = max_consecutive_errors

\* C9: a shutdown triggered by the breaker ends the loop and is called with
\* is_error = True, which the runtime summary carries as is_error_shutdown
\* once it is sent; one triggered by a KeyboardInterrupt or a signal is called
\* with is_error = False and carries is_error_shutdown = False.
C9_ErrorFlag ==
    /\ shutdown_cause = "breaker" =>
          /\ pc \in {"shutting", "exited", "terminated"}
          /\ shutdown_is_error = "True"
          /\ shutdown_step = "done" =>
                is_error_shutdown = (IF dingtalk_notifier THEN "True" ELSE "unset")
    /\ shutdown_cause \in {"interrupt", "signal"} =>
          /\ pc \in {"shutting", "shutting_sig", "shutting_swallow", "sleep",
                    "loop_head", "exited", "terminated"}
          /\ shutdown_is_error = "False"
          /\ shutdown_step = "done" =>
                is_error_shutdown = (IF dingtalk_notifier THEN "False" ELSE "unset")

C9_Witness ==
    /\ shutdown_cause = "breaker"
    /\ is_error_shutdown = "True"
    /\ pc = "exited"

\* C10: over every sequence of observed diffs max_diff never decreases and
\* min_diff never increases, and after each observation they are the largest
\* and the smallest diff observed so far.
C10_Extrema ==
    [][ /\ max_diff' >= max_diff
        /\ min_diff' <= min_diff
        /\ observed' # {} =>
              /\ max_diff' = SetMax(observed')
              /\ min_diff' = SetMin(observed') ]_vars

C10_Witness ==
    /\ Cardinality(observed) >= 3
    /\ max_diff = MIN_PRICE_DIFF
    /\ min_diff < 0

\* the last line of the trade log
LastRecord == trade_log[Len(trade_log)]

\* C11: in every open leg B is submitted on the side opposite to leg A: with
\* diff > 0 leg A (PAXG) is SELL and leg B (XAU) is buy, with diff < 0 leg A is
\* BUY and leg B is sell; and the one OPEN record the open appends carries the
\* diff of the cycle, the one that passed the open test.
C11_OppositeSides ==
    (cyc.attempt = "open" /\ cyc.legB # "none") =>
        /\ <<cyc.sideA, cyc.sideB>> \in {<<"SELL", "buy">>, <<"BUY", "sell">>}
        /\ cyc.diff > 0 => (cyc.sideA = "SELL" /\ cyc.sideB = "buy")
        /\ cyc.diff < 0 => (cyc.sideA = "BUY" /\ cyc.sideB = "sell")
        /\ Len(trade_log) = cyc.log0 + 1
        /\ LastRecord.trade_type = "OPEN"
        /\ LastRecord.price_diff = cyc.diff
        /\ Abs(cyc.diff) >= MIN_PRICE_DIFF

C11_Witness ==
    /\ pc = "sleep" /\ cyc.attempt = "open" /\ cyc.legB = "ok"
    /\ cyc.diff < 0 /\ cyc.sideA = "BUY" /\ cyc.sideB = "sell"
    /\ LastRecord.price_diff = cyc.diff

\* C12: an executed close calls close-all on both venues; it appends exactly
\* one CLOSE record when at least one venue's close succeeded and none when
\* both failed.
C12_CloseRecord ==
    (cyc.attempt = "close" /\ cyc.result # "none") =>
        /\ cyc.legA # "none" /\ cyc.legB # "none"
        /\ IF cyc.legA = "ok" \/ cyc.legB = "ok"
           THEN /\ Len(trade_log) = cyc.log0 + 1
                /\ LastRecord.trade_type = "CLOSE"
           ELSE Len(trade_log) = cyc.log0

C12_Witness ==
    /\ pc = "sleep" /\ cyc.attempt = "close"
    /\ cyc.legA = "ok" /\ cyc.legB = "fail"
    /\ Len(trade_log) = cyc.log0 + 1
    /\ LastRecord.trade_type = "CLOSE"

\* C13 (as claimed): when leg A succeeded and leg B failed, the open returns
\* an outcome different from the one of a full success, its notification
\* differs from the one of a full success, and the failure is logged at the
\* highest level.
C13_PartialOpenReported ==
    (cyc.attempt = "open" /\ cyc.legA = "ok" /\ cyc.legB = "fail") =>
        /\ cyc.result # OpenResult(TRUE)
        /\ dingtalk_notifier => cyc.note # OpenNotification(cyc.diff, TRUE)
        /\ cyc.level = "CRITICAL"

C15_OneNotificationPerChange ==
    [][ notif_window' - notif_window =
          IF /\ dingtalk_notifier
             /\ last_trading_status \in {"True", "False"}
             /\ last_trading_status' # last_trading_status
          THEN 1 ELSE 0 ]_vars

\* open -> closed -> open: two changes, two notifications
C15_Witness ==
    /\ dingtalk_notifier /\ notif_window = 2
    /\ last_trading_status = "True" /\ pc = "fetch"

\* C16: with the trading-time check enabled, a cycle whose calendar check
\* reported closed fetches no price, queries no position and submits no order;
\* it only waits on the calendar.  Every fetch, query and order happens in a
\* cycle whose calendar check reported open.
C16_ClosedCycleDoesNothing ==
    ENABLE_TRADING_TIME_CHECK =>
        /\ cyc.calendar = "closed" =>
              /\ cyc.fetched = "no" /\ ~cyc.queried /\ ~cyc.verified
              /\ cyc.attempt = "none"
              /\ cyc.legA = "none" /\ cyc.legB = "none"
              /\ Len(trade_log) = cyc.log0
              /\ pc \in {"wait", "loop_head", "shutting_sig", "terminated"}
        /\ ( \/ cyc.fetched # "no" \/ cyc.queried \/ cyc.attempt # "none"
             \/ cyc.legA # "none" \/ cyc.legB # "none"
             \/ pc \in {"fetch", "query", "decide", "open_verify",
                        "open_legA", "open_legB", "close"} )
              => cyc.calendar = "open"

\* the market closed while both venues hold a leg; the cycle did nothing
C16_Witness ==
    /\ ENABLE_TRADING_TIME_CHECK /\ cyc.calendar = "closed"
    /\ pc = "loop_head"
    /\ binance_legs > 0 /\ xau_legs > 0

\* C17: close_position is called at most once in a cycle; and in a later
\* cycle that reaches its decision while the leg left by the last close is
\* still reported and abs(diff) <= CLOSE_PRICE_DIFF, it is called again.
C17_CloseRetriedNextCycle ==
    /\ cyc.attempts <= 1
    /\ ( /\ cyc.decided /\ cyc.dangling
         /\ (cyc.bq > 0 \/ cyc.xq > 0)
         /\ Abs(cyc.diff) <= CLOSE_PRICE_DIFF ) => cyc.attempt = "close"

\* the retry of a close that had left the XAU leg open
C17_Witness ==
    /\ cyc.dangling /\ cyc.decided /\ cyc.attempt = "close"
    /\ cyc.bq = 0 /\ cyc.xq > 0
    /\ ~position_open

\* C18 (as claimed): a process that terminates after leg A of an open was
\* filled has also submitted leg B and written the OPEN record.
C18_OpenNotAbandoned ==
    (pc = "terminated" /\ cyc.attempt = "open" /\ cyc.legA = "ok") =>
        /\ cyc.legB # "none"
        /\ Len(trade_log) = cyc.log0 + 1

\* C19 (as claimed): whatever triggers fired, a terminated process (with a
\* notifier configured) has sent exactly one shutdown notification.
C19_OneShutdownNotification ==
    (pc = "terminated" /\ dingtalk_notifier) => notif_shutdown = 1

\* C20 (as claimed): a process stopped by a signal or a user interrupt ends
\* with exit code 0, one stopped by the breaker or by an error ends with
\* another exit code.
C20_ExitCodeReflectsCause ==
    pc = "terminated" =>
        /\ shutdown_cause \in {"signal", "interrupt", "exit"} => exit_code = "0"
        /\ shutdown_cause \in {"breaker", "fatal", "error"} => exit_code # "0"

\* C21 (as claimed): max_consecutive_errors cycles failed in a row, each by
\* a missing price or by an exception, have shut the engine down with the
\* error flag.
C21_FailedCyclesTripBreaker ==
    failed_cycles >= max_consecutive_errors =>
        /\ shutdown_called
        /\ shutdown_is_error = "True"

\* C22 (as claimed): a cycle in which the position query of a venue failed
\* has incremented the consecutive-error counter and goes on to the next
\* cycle without acting.
C22_FailedQueryCounted ==
    (cyc.decided /\ (~cyc.bq_ok \/ ~cyc.xq_ok)) =>
        /\ consecutive_errors >= 1
        /\ cyc.attempt = "none"

\* C23: an exception classified fatal shuts the engine down with the error
\* flag in the cycle in which it was raised, whatever the error count; an
\* exception that is not fatal and leaves the count below
\* max_consecutive_errors shuts nothing down and the loop goes on.
C23_FatalShutsDown ==
    [][ /\ (cyc'.exc = "fatal") =>
              /\ shutdown_called'
              /\ shutdown_is_error' = "True"
              /\ shutdown_cause' \in {"fatal", "breaker"}
              /\ pc' \in {"shutting", "exited", "terminated"}
              /\ cyc'.exc # cyc.exc \/ cyc' = cyc
        /\ ( /\ cyc.exc = "none" /\ cyc'.exc = "plain"
             /\ consecutive_errors' < max_consecutive_errors ) =>
              /\ pc' = "loop_head"
              /\ UNCHANGED ShutdownVars ]_vars

C23_Witness ==
    /\ cyc.exc = "fatal" /\ shutdown_cause = "fatal"
    /\ consecutive_errors = 1
    /\ is_error_shutdown = "True" /\ pc = "exited"

\* C24: a notification send that raises is contained where it was made:
\* the step that made it leaves the consecutive-error counter and the
\* shutdown flag as they were, raises nothing into the loop's handler,
\* continues at the place a successful send continues at, and the open or
\* close that triggered it still returns True with its effect on the cached
\* flag
C24_SendFailureContained ==
    [][ ( /\ cyc'.send_failed # "none"
          /\ \/ cyc'.send_failed # cyc.send_failed
             \/ pc = "loop_head" /\ pc' \in {"fetch", "wait"} )
        => /\ consecutive_errors' = consecutive_errors
           /\ shutdown_called' = shutdown_called
           /\ cyc'.exc = IF pc = "loop_head" THEN "none" ELSE cyc.exc
           /\ pc' = CASE pc = "init_wait" -> "loop_head"
                      [] pc = "loop_head" ->
                           IF cyc'.calendar = "closed" THEN "wait" ELSE "fetch"
                      [] pc \in {"open_legB", "close"} -> "sleep"
                      [] pc = "shutting" -> "exited"
                      [] pc = "shutting_swallow" -> "sleep"
                      [] OTHER -> "terminated"
           /\ (pc = "open_legB") =>
                 /\ cyc'.send_failed = "open"
                 /\ cyc'.result = "True" /\ position_open'
                 /\ Len(trade_log') = Len(trade_log) + 1
           /\ (pc = "close") =>
                 /\ cyc'.send_failed = "close"
                 /\ cyc'.result = "True" /\ ~position_open'
           /\ (pc \in ShuttingPcs) =>
                 /\ cyc'.send_failed = "shutdown"
                 /\ shutdown_step' = "done"
                 /\ notif_shutdown' = notif_shutdown + 1 ]_vars

\* a close whose notification send raised returned True and the loop goes on
C24_Witness ==
    /\ pc = "loop_head" /\ ~shutdown_called
    /\ cyc.attempt = "close" /\ cyc.send_failed = "close"
    /\ cyc.result = "True" /\ cyc.exc = "none"
    /\ consecutive_errors = 0
\* C25: an observation of a diff inside [min_diff, max_diff] changes none of
\* max_diff, max_diff_time, min_diff, min_diff_time and appends no statistics
\* record; a step appends a statistics record exactly when it changed
\* max_diff or min_diff, and then exactly one.
C25_StatsFrame ==
    [][ /\ ( /\ pc = "fetch" /\ cyc'.fetched = "ok"
             /\ min_diff <= cyc'.diff /\ cyc'.diff <= max_diff )
           => UNCHANGED <<max_diff, max_diff_time, min_diff, min_diff_time,
                          stats_log>>
        /\ (stats_log' # stats_log) <=>
              (max_diff' # max_diff \/ min_diff' # min_diff)
        /\ stats_log' \in {stats_log, stats_log + 1} ]_vars

\* a diff strictly inside the range was observed after two records were
\* written, and no third one was
C25_Witness ==
    /\ pc = "query" /\ cyc.fetched = "ok"
    /\ min_diff < cyc.diff /\ cyc.diff < max_diff
    /\ stats_log = 2
    /\ max_diff_time # min_diff_time
\* C26 (as claimed): the trade counter equals the number of completed opens
\* and closes, each of which left its record in the trade log
C26_TradesCounted == total_trades_count = Len(trade_log)
\* the two places where the thread is inside wait_until_trading_time
Waiting == pc \in {"init_wait", "wait"}

\* C27: a pass of the wait returns exactly when its poll reported open or
\* was cancelled: it returns at the first poll that reports open, and after
\* a poll that reports closed the thread is still waiting; and when the
\* calendar reports open at some poll, a thread that waits eventually has
\* returned.
C27_WaitReturns ==
    /\ [][ (Waiting /\ cyc'.poll # cyc.poll) =>
             /\ (cyc'.poll = "open") => pc' = "loop_head"
             /\ (cyc'.poll = "closed") => pc' = pc
             /\ (pc' = "loop_head") => cyc'.poll \in {"open", "cancel"} ]_vars
    /\ [] (Waiting => cyc.poll \in {"none", "closed"})
    /\ Waiting ~> (~Waiting /\ cyc.poll \in {"open", "cancel"})

\* the wait entered inside the loop on a closed calendar returned on a poll
\* that reported open
C27_Witness ==
    /\ pc = "loop_head" /\ cyc.calendar = "closed" /\ cyc.poll = "open"
    /\ consecutive_errors = 0
\* C28: the close threshold is below the open threshold and no diff passes
\* both the open test and the close test; and while the observed diff stays
\* the same, a call of close_position never comes after a call of
\* open_position, nor a call of open_position after one of close_position.
C28_NoFlipAtConstantDiff ==
    /\ [] ( /\ CLOSE_PRICE_DIFF < MIN_PRICE_DIFF
            /\ \A d \in -(MIN_PRICE_DIFF + 1)..(MIN_PRICE_DIFF + 1) :
                  ~(ShouldOpen(d) /\ ShouldClosePosition(d, 1, 1)) )
    /\ [][ (cyc.attempt = "none" /\ cyc'.attempt # "none") =>
             cyc.run \in {"none", cyc'.attempt} ]_vars

\* an open was made, the next observation showed the same diff, and the
\* decision of that cycle called neither open_position nor close_position
C28_Witness ==
    /\ cyc.run = "open" /\ cyc.fetched = "ok" /\ cyc.diff = cyc.last_diff
    /\ cyc.bq > 0 /\ cyc.xq > 0
    /\ cyc.decided /\ cyc.attempt = "none"
\* where the thread can be while the shutdown flag is set
AfterShutdownPcs == ShuttingPcs \cup {"sleep", "loop_head", "exited",
                                      "terminated"}

\* C29: once the shutdown flag is set it stays set; the thread is in
\* shutdown_system, at the end of the cycle it was in, at the loop test or
\* out of the loop, so no further cycle starts; and no step places or
\* closes a leg, writes a trade record or takes a trade id.
C29_NothingAfterShutdown ==
    [][ shutdown_called =>
          /\ shutdown_called'
          /\ pc \in AfterShutdownPcs /\ pc' \in AfterShutdownPcs
          /\ cyc'.attempts = cyc.attempts /\ cyc'.fetched = cyc.fetched
          /\ UNCHANGED <<binance_legs, xau_legs, trade_log, trade_id,
                         total_trades_count, position_open, notif_open,
                         notif_close>> ]_vars

\* the loop test ended the loop because the flag was set by a signal whose
\* SystemExit was dropped
C29_Witness ==
    /\ pc = "exited" /\ shutdown_called /\ shutdown_cause = "signal"
    /\ shutdown_step = "done"
    /\ cyc.attempt = "close" /\ cyc.exc = "none"
\* venues whose close-all returned True in a finished close_position
ClosedCount ==
    (IF cyc.legA = "ok" THEN 1 ELSE 0) + (IF cyc.legB = "ok" THEN 1 ELSE 0)

\* C30: a close_position that ran has called the XAU close-all, whatever
\* Binance's close-all returned; its outcome depends only on how many of
\* the two venues closed (both, exactly one, none), not on which one; and
\* it returns False exactly when none did.
C30_CloseOutcomeSymmetric ==
    /\ \A b \in BOOLEAN, x \in BOOLEAN : CloseOutcome(b, x) = CloseOutcome(x, b)
    /\ (cyc.attempt = "close" /\ cyc.result # "none") =>
          /\ cyc.legA # "none" /\ cyc.legB # "none"
          /\ cyc.outcome = CASE ClosedCount = 2 -> "BothClosed"
                              [] ClosedCount = 1 -> "PartialClose"
                              [] OTHER -> "NoneClosed"
          /\ cyc.result = IF ClosedCount = 0 THEN "False" ELSE "True"

\* Binance's close-all failed and left its leg, the XAU close-all was still
\* called and closed its leg: a partial close that returns True
C30_Witness ==
    /\ pc = "sleep" /\ cyc.attempt = "close"
    /\ cyc.legA = "fail" /\ cyc.legB = "ok"
    /\ binance_legs > 0 /\ xau_legs = 0 /\ cyc.xq > 0
    /\ cyc.outcome = "PartialClose" /\ cyc.result = "True"

\* =================================================== the trading calendar
\* trading_time.py works on the Europe/Athens wall clock: a weekday
\* (0 = Monday .. 6 = Sunday) and a time of day, here in seconds since
\* midnight.
DailyOpen  == 3660     \* 01:01:00
DailyClose == 86280    \* 23:58:00

\* the times of day the clock is sampled at: midnight, the second before,
\* at and after each end of the window, noon, the last second of the day
ClockSamples == {0, DailyOpen - 1, DailyOpen, DailyOpen + 1, 43200,
                 DailyClose - 1, DailyClose, DailyClose + 1,
                 DailyClose + 119}
Weekdays == 0..6

\* mutant: the closing minute itself is outside the window
InWindowStrict(current_time) ==
    DailyOpen <= current_time /\ current_time < DailyClose
\* daily_open <= current_time <= daily_close
InWindow(current_time) ==
    DailyOpen <= current_time /\ current_time <= DailyClose

\* is_trading_time(): the flag of the returned pair
IsTradingTime(now) ==
    IF ~now.ok THEN FALSE                       \* except Exception
    ELSE IF now.weekday < 5 THEN InWindow(now.tod)
    ELSE FALSE                                  \* weekend

\* is_daily_break()
IsDailyBreak(now) ==
    IF ~now.ok THEN FALSE
    ELSE now.tod > DailyClose \/ now.tod < DailyOpen

\* is_weekend()
IsWeekend(now) ==
    IF ~now.ok THEN FALSE ELSE now.weekday >= 5

\* days_until_monday of get_next_trading_time
DaysUntilMonday(weekday) ==
    IF (7 - weekday) % 7 = 0 THEN 1 ELSE (7 - weekday) % 7

\* get_next_trading_time(): the first component of the returned pair
GetNextTradingTime(now) ==
    IF ~now.ok THEN NoInstant("None")           \* except Exception
    ELSE IF IsTradingTime(now) THEN Instant(0, now.tod)
    ELSE IF now.weekday < 5
         THEN IF now.tod > DailyClose
              THEN Instant(1, DailyOpen)        \* tomorrow 01:01
              ELSE Instant(0, DailyOpen)        \* today 01:01
         ELSE Instant(DaysUntilMonday(now.weekday), DailyOpen)

\* the clock reads one instant; each function is called on it
InitCalendar ==
    /\ InitEngine /\ counting = FALSE /\ tracing = FALSE
    /\ SizingIdle /\ queries_fail = TRUE
    /\ now_eet \in [weekday : Weekdays, tod : ClockSamples, ok : BOOLEAN]
    /\ cal = NoCalls

CalendarFrame ==
    UNCHANGED <<pc, EngineVars, VenueVars, StatsVars,
                ENABLE_TRADING_TIME_CHECK, dingtalk_notifier, counting,
                tracing, now_eet, quote, sized, queries_fail, exit_code,
                ShutdownVars, WindowVars, BreakerVars, cyc>>

CallIsTradingTime ==
    /\ cal.is_trading = "unset"
    /\ cal' = [cal EXCEPT !.is_trading = BoolStr(IsTradingTime(now_eet))]
    /\ CalendarFrame

CallIsDailyBreak ==
    /\ cal.is_break = "unset"
    /\ cal' = [cal EXCEPT !.is_break = BoolStr(IsDailyBreak(now_eet))]
    /\ CalendarFrame

CallIsWeekend ==
    /\ cal.is_weekend = "unset"
    /\ cal' = [cal EXCEPT !.is_weekend = BoolStr(IsWeekend(now_eet))]
    /\ CalendarFrame

CallGetNextTradingTime ==
    /\ cal.next.kind = "unset"
    /\ cal' = [cal EXCEPT !.next = GetNextTradingTime(now_eet)]
    /\ CalendarFrame

NextCalendar ==
    \/ CallIsTradingTime
    \/ CallIsDailyBreak
    \/ CallIsWeekend
    \/ CallGetNextTradingTime

SpecCalendar == InitCalendar /\ [][NextCalendar]_vars

\* C31: is_trading_time reports open exactly when the Athens clock shows
\* Monday to Friday and a time from 01:01:00 to 23:58:00, both ends
\* included; it reports closed on a weekend, in the daily break and when
\* the clock cannot be read; and on a weekday whose clock was read it is
\* the exact complement of is_daily_break.
C31_OpenExactlyInWindow ==
    /\ cal.is_trading # "unset" =>
          cal.is_trading = BoolStr(/\ now_eet.ok
                                   /\ now_eet.weekday \in 0..4
                                   /\ now_eet.tod >= 3660
                                   /\ now_eet.tod <= 86280)
    /\ (cal.is_trading # "unset" /\ cal.is_break # "unset"
        /\ now_eet.ok /\ now_eet.weekday \in 0..4) =>
          (cal.is_trading = "True") = (cal.is_break = "False")
    /\ (cal.is_trading # "unset" /\ cal.is_weekend = "True") =>
          cal.is_trading = "False"

\* Friday at 23:58:00 sharp is still open and no daily break
C31_Witness ==
    /\ now_eet.ok /\ now_eet.weekday = 4 /\ now_eet.tod = DailyClose
    /\ cal.is_trading = "True" /\ cal.is_break = "False"
    /\ cal.is_weekend = "False"

\* C32: whenever the market is closed and get_next_trading_time returns an
\* instant, that instant is a Monday-to-Friday 01:01:00, lies after now, and
\* no Monday-to-Friday 01:01:00 lies between now and it; this for every
\* weekday and time of day, Friday after 23:58 included.
C32_NextInstantIsTrading ==
    (cal.next.kind = "instant" /\ ~IsTradingTime(now_eet)) =>
        /\ (now_eet.weekday + cal.next.days) % 7 \in 0..4
        /\ cal.next.tod = 3660
        /\ cal.next.days > 0 \/ now_eet.tod < 3660
        /\ \A d \in 0..6 :
              (d < cal.next.days /\ (d > 0 \/ now_eet.tod < 3660)) =>
                  (now_eet.weekday + d) % 7 \notin 0..4

\* C33: once a pass of the calendar wait was ended by a KeyboardInterrupt,
\* the monitor loop starts no further cycle.
C33_InterruptEndsLoop ==
    [][(cyc.poll = "cancel" /\ pc = "loop_head") =>
          pc' \notin {"fetch", "wait"}]_vars

\* ========================================================== order sizing
\* Quantities are floats in the code; here they are fixed-point numbers with
\* Units steps to one ounce, one contract or one lot, fine enough for every
\* step size and conversion below to be exact.
Units == 100000
PAXG_QUANTITY == 1000              \* 0.01 ounce
BinanceStep == 100                 \* 0.001 PAXG, the LOT_SIZE step
OkxStep == 1 * Units               \* lotSz: one contract
ContractsPerOunce == 1000
OuncesPerLot == 100
Venues == {"okx", "mt5"}

\* math.floor(x / step) * step
FloorToStep(x, step) == (x \div step) * step

\* binance_position_size_usdt = paxg_quantity * paxg_price
PositionSizeUsdt(paxg_quantity, paxg_price) == paxg_quantity * paxg_price

\* xau_volume: contracts on OKX, lots on MT5
XauVolume(venue, paxg_quantity) ==
    IF venue = "okx" THEN paxg_quantity * ContractsPerOunce
    ELSE paxg_quantity \div OuncesPerLot

\* place_paxg_order: the notional divided by the price fetched at order
\* time, truncated to the step
PaxgOrderQuantity(quantity_usdt, price) ==
    FloorToStep(quantity_usdt \div price, BinanceStep)

\* place_xauusd_order: OKX truncates to its step, MT5 passes the volume on
XauOrderQuantity(venue, volume) ==
    IF venue = "okx" THEN FloorToStep(volume, OkxStep) ELSE volume

\* ounces that a leg-B quantity stands for
XauOunces(venue, quantity) ==
    IF venue = "okx" THEN quantity \div ContractsPerOunce
    ELSE quantity * OuncesPerLot

\* an open is sized for a cycle price, an order-time price and a venue
InitSizing ==
    /\ InitEngine /\ counting = FALSE /\ tracing = FALSE
    /\ CalendarIdle /\ queries_fail = TRUE
    /\ quote \in [paxg_price : PaxgPrices, price : PaxgPrices,
                  venue : Venues]
    /\ sized = NotSized

SizingFrame ==
    UNCHANGED <<pc, EngineVars, VenueVars, StatsVars,
                ENABLE_TRADING_TIME_CHECK, dingtalk_notifier, counting,
                tracing, now_eet, cal, quote, queries_fail, exit_code,
                ShutdownVars, WindowVars, BreakerVars, cyc>>

\* leg A: open_position computes the notional, place_paxg_order the
\* quantity it submits
SizeLegA ==
    /\ sized.legA = "unset"
    /\ LET quantity ==
             PaxgOrderQuantity(
                 PositionSizeUsdt(PAXG_QUANTITY, quote.paxg_price),
                 quote.price)
       IN  sized' = [sized EXCEPT
                        !.legA = IF quantity <= 0 THEN "None" ELSE "order",
                        !.qtyA = quantity]
    /\ SizingFrame

\* leg B: open_position computes the volume, place_xauusd_order the
\* quantity it submits
SizeLegB ==
    /\ sized.legB = "unset"
    /\ LET quantity ==
             XauOrderQuantity(quote.venue,
                              XauVolume(quote.venue, PAXG_QUANTITY))
       IN  sized' = [sized EXCEPT
                        !.legB = IF quantity <= 0 THEN "None" ELSE "order",
                        !.qtyB = quantity]
    /\ SizingFrame

NextSizing == SizeLegA \/ SizeLegB

SpecSizing == InitSizing /\ [][NextSizing]_vars

\* C34: the quantities submitted on leg A and on leg B stand for the same
\* number of ounces, the configured PAXG quantity (leg B converted at 1000
\* contracts an ounce on OKX and at 1/100 lot an ounce on MT5), whatever
\* the PAXG price at order time is.
C34_LegsSameOunces ==
    (sized.legA # "unset" /\ sized.legB # "unset") =>
        /\ sized.legA = "order" /\ sized.legB = "order"
        /\ sized.qtyA = 1000
        /\ XauOunces(quote.venue, sized.qtyB) = 1000

\* The engine with position queries that always return what the venues
\* hold.
InitTrueQueries ==
    /\ InitEngine /\ counting = FALSE /\ tracing = FALSE
    /\ CalendarIdle /\ SizingIdle /\ queries_fail = FALSE

SpecTrueQueries == InitTrueQueries /\ [][Next]_vars

\* C35: with position queries that always return the venues' true
\* positions, leg A of an open is submitted only while both venues are
\* flat, leg B only while the XAU venue is flat and Binance holds at most
\* the leg A of this same open, and no venue ever holds more than the leg
\* of one open.
C35_NoOpenOverHeldLeg ==
    /\ binance_legs <= 1 /\ xau_legs <= 1
    /\ pc = "open_legA" => (binance_legs = 0 /\ xau_legs = 0)
    /\ pc = "open_legB" =>
          /\ xau_legs = 0
          /\ binance_legs = IF cyc.legA = "ok" THEN 1 ELSE 0

\* the second open of the run, after a close, has placed its leg A
C35_Witness ==
    /\ trade_id = 2 /\ pc = "open_legB" /\ cyc.legA = "ok"
    /\ binance_legs = 1 /\ xau_legs = 0
    /\ Len(trade_log) = 2 /\ trade_log[2].trade_type = "CLOSE"

\* C36: in one poll cycle the engine attempts at most one of open and
\* close, at most once, and so writes at most one trade record.
C36_OneAttemptPerCycle ==
    /\ cyc.attempts <= 1
    /\ (cyc.attempts = 0) = (cyc.attempt = "none")
    /\ cyc.attempt \in {"none", "open", "close"}
    /\ Len(trade_log) <= cyc.log0 + 1

\* a cycle whose one attempt was a close that went through, on its way to
\* the sleep
C36_Witness ==
    /\ pc = "sleep" /\ cyc.attempt = "close" /\ cyc.attempts = 1
    /\ cyc.result = "True" /\ Len(trade_log) = cyc.log0 + 1
    /\ binance_legs = 0 /\ xau_legs = 0

\* C37: a close_position that returns True has flattened an open leg on at
\* least one venue; when no held leg was flattened it returns False (and
\* writes no CLOSE record and sends no close notification).
C37_SuccessMeansFlattened ==
    [][(pc = "close" /\ cyc'.result = "True") =>
          \/ binance_legs > 0 /\ binance_legs' = 0
          \/ xau_legs > 0 /\ xau_legs' = 0]_vars

\* C38: an open that aborted because leg A failed has left trade_id,
\* total_trades_count, position_open and the trade log as they were when
\* the cycle began.
C38_AbortedOpenChangesNothing ==
    (cyc.attempt = "open" /\ cyc.legA = "fail" /\ cyc.result = "False") =>
        /\ trade_id = cyc.tid0
        /\ total_trades_count = cyc.ntrades0
        /\ position_open = cyc.cached
        /\ Len(trade_log) = cyc.log0

\* C39: the first diff the engine observes becomes both max_diff and
\* min_diff, and from then on min_diff <= max_diff in every state.
C39_ExtremaOrdered ==
    /\ [](observed # {} => min_diff <= max_diff)
    /\ [][(observed = {} /\ observed' # {}) =>
             /\ cyc'.fetched = "ok"
             /\ max_diff' = cyc'.diff
             /\ min_diff' = cyc'.diff]_vars

\* one diff observed so far, the open threshold itself: both extrema are
\* that diff
C39_Witness ==
    /\ observed = {MIN_PRICE_DIFF}
    /\ max_diff = MIN_PRICE_DIFF /\ min_diff = MIN_PRICE_DIFF
    /\ cyc.fetched = "ok" /\ cyc.diff = MIN_PRICE_DIFF

\* C40 (as claimed): when every price fetch fails, the engine eventually
\* shuts down and the process ends, also with trading-time checking enabled
\* and a calendar that keeps switching between closed and open.
C40_OutageEndsLoop == <>(shutdown_called /\ pc = "terminated")

\* C40 (amended): when every price fetch fails, the engine eventually
\* shuts down through the breaker and the process ends, unless the loop
\* comes back to the calendar wait again and again: every return from that
\* wait resets the error counter.  With trading-time checking disabled it
\* always shuts down.
C40_OutageEndsLoopUnlessWaiting ==
    \/ <>(shutdown_called /\ shutdown_cause = "breaker" /\ pc = "terminated")
    \/ ENABLE_TRADING_TIME_CHECK /\ []<>(pc = "wait")

\* the breaker has ended a run with trading-time checking enabled in which
\* the calendar closed and opened again between the failed fetches
C40_Witness ==
    /\ pc = "terminated" /\ shutdown_cause = "breaker"
    /\ ENABLE_TRADING_TIME_CHECK
    /\ price_fail_run >= max_consecutive_errors
    /\ last_trading_status = "True" /\ notif_window >= 2
====
